---- MODULE Spec2Model ----
(***************************************************************************)
(* Model of overlay_rules.py: the debounced global-hotkey listener         *)
(* (KeyboardToggleListener), the queued cross-thread signal (HotkeyBridge),*)
(* the overlay window's visibility state (RulesOverlay) and main().        *)
(*                                                                         *)
(* Time is the reading of time.monotonic() in ticks of 0.1 s, so the       *)
(* 0.4 s debounce is 4 ticks and the 300 ms / 2000 ms timers are 3 / 20.   *)
(***************************************************************************)
EXTENDS Integers, Sequences, FiniteSets, TLC

\* ---- program constants (in ticks of 0.1 s) ----
DebounceTicks == 4
InitialLast == 0
HintDelay == 3
HideDelay == 20

\* ---- bounds of the model ----
ListenerHorizon == 9
MainHorizon == 24
MaxDowns == 3
MaxEmits == 2

\* ---- keys delivered by the hook: KeyCode(char) or a special Key ----
OneKey == [isKeyCode |-> TRUE, char |-> "1"]
OtherChar == [isKeyCode |-> TRUE, char |-> "a"]
SpecialKey == [isKeyCode |-> FALSE, char |-> "shift"]
Keys == {OneKey, OtherChar, SpecialKey}

Threads == {"t1", "t2"}
UIThread == "ui"
NoThread == "none"
ReturnCodes == {0, 1}
NoResult == -1

VARIABLES
  clock,          \* time.monotonic(), in ticks
  keyboardAvail,  \* module-level `keyboard` is not None
  pressed,        \* KeyboardToggleListener._pressed
  lock,           \* holder of KeyboardToggleListener._lock
  last,           \* KeyboardToggleListener._last_toggle_monotonic
  listenerState,  \* _listener: "none" | "created" | "started" | "stopped"
  tpc,            \* position of each hook thread inside _on_press
  tnow,           \* each thread's local `now`
  log,            \* history: key-down events handled, with their outcome
  emitted,        \* number of bridge.toggleRequested.emit() calls
  queue,          \* queued slot invocations posted to the UI thread
  executed,       \* history: emits whose slot invocation has run
  is_visible,     \* RulesOverlay._is_visible
  widgetShown,    \* the widget's shown/hidden state (show()/hide())
  nToggles,       \* history: number of toggle_visibility executions
  toggleThreads,  \* history: threads that executed toggle_visibility
  warned,         \* start() printed the "pynput not available" warning
  mainPc,         \* position of main()
  exitKind,       \* how app.exec() ended: "none" | "return" | "raise"
  rc,             \* value returned by app.exec()
  result,         \* value returned by main()
  stopCalled,     \* listener.stop() has been executed
  hintState,      \* singleShot(300, initial_hint): "unscheduled" | "pending" | "done"
  hintDue,
  hideState,      \* singleShot(2000, toggle_visibility): "none" | "pending" | "done"
  hideDue

listenerVars == <<pressed, lock, last, tpc, tnow, log>>
signalVars == <<emitted, queue, executed>>
overlayVars == <<is_visible, widgetShown, nToggles, toggleThreads>>
mainVars == <<warned, mainPc, exitKind, rc, result, stopCalled, listenerState>>
timerVars == <<hintState, hintDue, hideState, hideDue>>
vars == <<clock, keyboardAvail, listenerVars, signalVars, overlayVars, mainVars, timerVars>>

\* ---- KeyboardToggleListener ----

\* _is_one_key
IsOneKey(keys) ==
  IF ~keyboardAvail THEN FALSE
  ELSE \E k \in keys : k.isKeyCode /\ k.char = "1"

DebounceStrict(now, l) == now - l > DebounceTicks

\* now - self._last_toggle_monotonic >= self._debounce_seconds
DebounceElapsed(now, l) == now - l >= DebounceTicks

LockIgnored(l) == TRUE

\* `with self._lock:` can be entered
LockFree(l) == l = NoThread

\* the test made after self._pressed.add(key)
ToggleKeyDown(keys, key) == IsOneKey(keys \cup {key})

\* RulesOverlay.toggle_visibility, executed by thread th
ToggleShowOnly(th) ==
  /\ is_visible' = TRUE
  /\ widgetShown' = TRUE
  /\ nToggles' = nToggles + 1
  /\ toggleThreads' = toggleThreads \cup {th}

ToggleVisibility(th) ==
  /\ is_visible' = ~is_visible
  /\ widgetShown' = is_visible'
  /\ nToggles' = nToggles + 1
  /\ toggleThreads' = toggleThreads \cup {th}

\* lambda: bridge.toggleRequested.emit(), called by hook thread th; the
\* receiver lives in the UI thread, so the connection is queued
EmitDirect(th) ==
  /\ emitted' = emitted + 1
  /\ queue' = queue
  /\ executed' = Append(executed, emitted + 1)
  /\ ToggleVisibility(th)

Emit(th) ==
  /\ emitted' = emitted + 1
  /\ queue' = Append(queue, emitted + 1)
  /\ UNCHANGED <<executed, overlayVars>>

\* _on_press up to the debounce test (lock taken, key added, clock read)
OnPressEnter(th, key, trace) ==
  /\ listenerState = "started"
  /\ tpc[th] = "idle"
  /\ LockFree(lock)
  /\ IF trace THEN Len(log) < MaxDowns ELSE emitted < MaxEmits
  /\ pressed' = pressed \cup {key}
  /\ LET now == clock
         fire == ToggleKeyDown(pressed, key) /\ DebounceElapsed(now, last)
     IN /\ log' = IF trace
                  THEN Append(log, [key |-> key, t |-> now, fired |-> fire])
                  ELSE log
        /\ IF fire
           THEN /\ tpc' = [tpc EXCEPT ![th] = "fire"]
                /\ tnow' = [tnow EXCEPT ![th] = now]
                /\ lock' = th
           ELSE UNCHANGED <<tpc, tnow, lock>>
  /\ UNCHANGED <<clock, keyboardAvail, last, signalVars, overlayVars, mainVars, timerVars>>

\* _on_press, accepted branch: record the timestamp, call on_toggle, unlock
OnPressFire(th) ==
  /\ tpc[th] = "fire"
  /\ last' = tnow[th]
  /\ Emit(th)
  /\ tpc' = [tpc EXCEPT ![th] = "idle"]
  /\ tnow' = [tnow EXCEPT ![th] = 0]
  /\ lock' = NoThread
  /\ UNCHANGED <<clock, keyboardAvail, pressed, log, mainVars, timerVars>>

\* _on_release
OnRelease(th, key) ==
  /\ listenerState = "started"
  /\ tpc[th] = "idle"
  /\ LockFree(lock)
  /\ pressed' = pressed \ {key}
  /\ UNCHANGED <<clock, keyboardAvail, lock, last, tpc, tnow, log,
                 signalVars, overlayVars, mainVars, timerVars>>

\* ---- main() ----

StartRaisesWhenMissing(l) ==
  IF l = "none" THEN [state |-> "none", warned |-> TRUE, raised |-> TRUE]
  ELSE [state |-> "started", warned |-> FALSE, raised |-> FALSE]

\* KeyboardToggleListener.start
ListenerStart(l) ==
  IF l = "none" THEN [state |-> "none", warned |-> TRUE, raised |-> FALSE]
  ELSE [state |-> "started", warned |-> FALSE, raised |-> FALSE]

\* KeyboardToggleListener.stop
ListenerStop(l) == IF l # "none" THEN "stopped" ELSE l

AfterExecNoFinally(kind) == IF kind = "raise" THEN "raised" ELSE "finally"

\* try: rc = app.exec() / finally: listener.stop()
AfterExec(kind) == "finally"

\* listener.start() and QTimer.singleShot(300, initial_hint), then app.exec()
MainStartup ==
  /\ mainPc = "start"
  /\ LET r == ListenerStart(listenerState)
     IN /\ listenerState' = r.state
        /\ warned' = r.warned
        /\ mainPc' = IF r.raised THEN "raised" ELSE "exec"
        /\ hintState' = IF r.raised THEN hintState ELSE "pending"
        /\ hintDue' = IF r.raised THEN hintDue ELSE clock + HintDelay
  /\ UNCHANGED <<clock, keyboardAvail, listenerVars, signalVars, overlayVars,
                 exitKind, rc, result, stopCalled, hideState, hideDue>>

\* the UI event loop delivers one queued toggleRequested to the slot
DispatchToggle ==
  /\ mainPc = "exec"
  /\ queue # <<>>
  /\ ToggleVisibility(UIThread)
  /\ executed' = Append(executed, Head(queue))
  /\ queue' = Tail(queue)
  /\ UNCHANGED <<clock, keyboardAvail, listenerVars, emitted, mainVars, timerVars>>

\* initial_hint, run by the 300 ms timer
InitialHint ==
  /\ mainPc = "exec"
  /\ hintState = "pending"
  /\ clock >= hintDue
  /\ ToggleVisibility(UIThread)
  /\ hintState' = "done"
  /\ hideState' = "pending"
  /\ hideDue' = clock + HideDelay
  /\ UNCHANGED <<clock, keyboardAvail, listenerVars, signalVars, mainVars, hintDue>>

\* the 2000 ms timer set by initial_hint runs overlay.toggle_visibility
HideTimer ==
  /\ mainPc = "exec"
  /\ hideState = "pending"
  /\ clock >= hideDue
  /\ ToggleVisibility(UIThread)
  /\ hideState' = "done"
  /\ UNCHANGED <<clock, keyboardAvail, listenerVars, signalVars, mainVars,
                 hintState, hintDue, hideDue>>

\* app.exec() ends, returning code or raising
ExecExit(kind, code) ==
  /\ mainPc = "exec"
  /\ exitKind' = kind
  /\ rc' = IF kind = "return" THEN code ELSE rc
  /\ mainPc' = AfterExec(kind)
  /\ UNCHANGED <<clock, keyboardAvail, listenerVars, signalVars, overlayVars,
                 warned, result, stopCalled, listenerState, timerVars>>

\* finally: listener.stop(); then return int(rc) or propagate
MainFinally ==
  /\ mainPc = "finally"
  /\ listenerState' = ListenerStop(listenerState)
  /\ stopCalled' = TRUE
  /\ mainPc' = IF exitKind = "return" THEN "returned" ELSE "raised"
  /\ result' = IF exitKind = "return" THEN rc ELSE result
  /\ UNCHANGED <<clock, keyboardAvail, listenerVars, signalVars, overlayVars,
                 warned, exitKind, rc, timerVars>>

\* a one-shot timer of the running event loop has reached its deadline
TimerDue ==
  /\ mainPc = "exec"
  /\ \/ hintState = "pending" /\ clock >= hintDue
     \/ hideState = "pending" /\ clock >= hideDue

\* the monotonic clock advances by one tick while the process lives; the
\* running event loop serves a due timer within the tick
Tick(limit) ==
  /\ clock < limit
  /\ mainPc \notin {"returned", "raised"}
  /\ ~TimerDue
  /\ clock' = clock + 1
  /\ UNCHANGED <<keyboardAvail, listenerVars, signalVars, overlayVars, mainVars, timerVars>>

\* ---- specifications ----

InitCommon ==
  /\ clock = 0
  /\ pressed = {}
  /\ lock = NoThread
  /\ last = InitialLast
  /\ tpc = [th \in Threads |-> "idle"]
  /\ tnow = [th \in Threads |-> 0]
  /\ log = <<>>
  /\ emitted = 0
  /\ queue = <<>>
  /\ executed = <<>>
  /\ is_visible = FALSE
  /\ widgetShown = FALSE
  /\ nToggles = 0
  /\ toggleThreads = {}
  /\ warned = FALSE
  /\ exitKind = "none"
  /\ rc = NoResult
  /\ result = NoResult
  /\ stopCalled = FALSE
  /\ hintDue = 0
  /\ hideState = "none"
  /\ hideDue = 0

\* main() after constructing the overlay, the bridge and the listener
Init ==
  /\ InitCommon
  /\ keyboardAvail \in BOOLEAN
  /\ listenerState = IF keyboardAvail THEN "created" ELSE "none"
  /\ mainPc = "start"
  /\ hintState = "unscheduled"

TickMain == Tick(MainHorizon)
PressMain == \E th \in Threads, key \in Keys : OnPressEnter(th, key, FALSE)
Fire == \E th \in Threads : OnPressFire(th)
Release == \E th \in Threads, key \in Keys : OnRelease(th, key)
ExecEnds == \E kind \in {"return", "raise"}, code \in ReturnCodes : ExecExit(kind, code)

Next ==
  \/ MainStartup
  \/ TickMain
  \/ PressMain
  \/ Fire
  \/ Release
  \/ DispatchToggle
  \/ InitialHint
  \/ HideTimer
  \/ ExecEnds
  \/ MainFinally

Spec == Init /\ [][Next]_vars

\* KeyboardToggleListener alone: its hook is running and on_toggle is the
\* bridge's emit; the event loop and its timers take no step; every key-down
\* event handled is recorded in log
InitListener ==
  /\ InitCommon
  /\ keyboardAvail = TRUE
  /\ listenerState = "started"
  /\ mainPc = "exec"
  /\ hintState = "unscheduled"

TickListener == Tick(ListenerHorizon)
PressTraced == \E th \in Threads, key \in Keys : OnPressEnter(th, key, TRUE)

NextListener ==
  \/ TickListener
  \/ PressTraced
  \/ Fire
  \/ Release

SpecListener == InitListener /\ [][NextListener]_vars

\* ---- histories read by the properties ----

IsOneDown(e) == e.key = OneKey
IsFired(e) == e.fired
OneDowns == SelectSeq(log, IsOneDown)
FiredDowns == SelectSeq(log, IsFired)
AllIdle == \A th \in Threads : tpc[th] = "idle"

\* reading of the last accepted key-down before log[i], InitialLast if none
PrevAccepted(i) ==
  LET js == {j \in 1..(i - 1) : log[j].fired}
  IN IF js = {} THEN InitialLast
     ELSE log[CHOOSE j \in js : \A k \in js : k <= j].t

\* successive toggle-key-down events are at least / less than 0.4 s apart
SpacedOneDowns ==
  \A i \in 1..(Len(OneDowns) - 1) : OneDowns[i + 1].t - OneDowns[i].t >= DebounceTicks
BurstOfOneDowns ==
  \A i \in 1..(Len(OneDowns) - 1) : OneDowns[i + 1].t - OneDowns[i].t < DebounceTicks

TimersRun == (IF hintState = "done" THEN 1 ELSE 0) + (IF hideState = "done" THEN 1 ELSE 0)

\* ---- properties ----

\* C1: the callback is invoked only when now - _last_toggle_monotonic >= 0.4 s
\* and _last_toggle_monotonic becomes now in the same step; any two accepted
\* key-down events carry clock readings at least 0.4 s apart.
C1_DebounceWindow ==
  /\ [](\A i, j \in 1..Len(log) :
          (i < j /\ log[i].fired /\ log[j].fired) => log[j].t - log[i].t >= DebounceTicks)
  /\ [][emitted' > emitted =>
          \E th \in Threads : /\ tpc[th] = "fire"
                              /\ tnow[th] - last >= DebounceTicks
                              /\ last' = tnow[th]]_vars

C1_Witness ==
  /\ Len(log) = 3
  /\ log[1].fired /\ ~log[2].fired /\ log[3].fired
  /\ log[2].key = OneKey
  /\ emitted = 2

\* C2: when successive toggle-key-down events are >= 0.4 s apart, every one of
\* them, the first after construction included, fires the callback.
C2_OncePerSpacedEvent ==
  SpacedOneDowns => \A i \in 1..Len(OneDowns) : OneDowns[i].fired

\* C3 (as stated): a burst of toggle-key-down events, each less than 0.4 s after
\* the previous one, fires the callback exactly once, whatever its duration
\* (stated for a burst whose first event is accepted).
C3_OncePerBurst ==
  (Len(OneDowns) >= 1 /\ BurstOfOneDowns /\ OneDowns[1].fired)
    => Cardinality({i \in 1..Len(OneDowns) : OneDowns[i].fired}) = 1

\* C3 (amended): a toggle-key-down event fires the callback exactly when its
\* clock reading is at least 0.4 s after the reading of the last accepted
\* toggle (0.0 before any was accepted), so a burst fires again each time
\* 0.4 s have passed since the last accepted event.
C3_FiresPerElapsedWindow ==
  \A i \in 1..Len(log) :
    log[i].key = OneKey => (log[i].fired <=> log[i].t - PrevAccepted(i) >= DebounceTicks)

C3_Witness ==
  /\ Len(OneDowns) = 3
  /\ BurstOfOneDowns
  /\ OneDowns[1].fired /\ ~OneDowns[2].fired /\ OneDowns[3].fired
  /\ AllIdle

\* C4: a key-down event for a key other than the toggle key never fires the
\* callback, also while '1' is still held and the debounce interval has passed.
C4_OtherKeyNeverFires ==
  \A i \in 1..Len(log) : log[i].key # OneKey => ~log[i].fired

\* C5: down('1') at t=0, t=0.1 and t=0.5 on a fresh listener gives exactly two
\* toggle invocations, for the events at t=0 and t=0.5.
C5_EndToEnd ==
  ( /\ Len(log) = 3
    /\ \A i \in 1..3 : log[i].key = OneKey
    /\ log[1].t = 0 /\ log[2].t = 1 /\ log[3].t = 5
    /\ AllIdle )
  => /\ log[1].fired /\ ~log[2].fired /\ log[3].fired
     /\ emitted = 2

\* C6 (as stated): every emit results in exactly one execution of
\* toggle_visibility on the UI thread, in order, none lost: when main() has
\* ended, every toggle raised has been executed.
C6_NoneLost ==
  /\ toggleThreads \subseteq {UIThread}
  /\ mainPc \in {"returned", "raised"} => Len(executed) = emitted

\* C6 (amended): every toggle raised is either executed exactly once by the UI
\* thread or still queued, executions and queue together keep the order in
\* which the toggles were raised, and no hook thread runs toggle_visibility;
\* toggles still queued when the event loop has exited are not executed.
C6_QueuedInOrder ==
  /\ [](/\ executed \o queue = [i \in 1..emitted |-> i]
        /\ toggleThreads \subseteq {UIThread}
        /\ nToggles = Len(executed) + TimersRun)
  /\ [][mainPc # "exec" => executed' = executed]_vars

C6_Witness ==
  /\ emitted = 2
  /\ executed = <<1, 2>>
  /\ toggleThreads = {UIThread}

\* C7 (as stated): with the keyboard hook unavailable, start() warns and
\* returns, no key event reaches the callback and the overlay is never shown.
C7_NeverShown ==
  ~keyboardAvail =>
    /\ mainPc # "start" => warned
    /\ emitted = 0
    /\ ~is_visible

\* C7 (amended): with the keyboard hook unavailable, start() warns and returns
\* without raising, no key event reaches the callback, and the overlay is
\* shown only by the startup hint, from the 300 ms timer until the 2000 ms
\* timer, and hidden in every other state.
C7_OnlyHintShows ==
  ~keyboardAvail =>
    /\ mainPc # "start" => warned
    /\ mainPc = "raised" => exitKind = "raise"
    /\ emitted = 0 /\ pressed = {} /\ AllIdle
    /\ nToggles = TimersRun
    /\ is_visible <=> (hintState = "done" /\ hideState = "pending")

C7_Witness ==
  /\ ~keyboardAvail
  /\ warned
  /\ hideState = "done"
  /\ ~is_visible
  /\ mainPc = "exec"

\* C8: whatever hotkey toggles interleave with the two timers, the overlay is
\* Hidden immediately after the second (2000 ms) timer callback has run.
C8_HiddenAfterHideTimer ==
  [][(hideState = "pending" /\ hideState' = "done") => ~is_visible']_vars

\* C9: whenever app.exec() ends, by return or by exception, listener.stop() has
\* run before main() returns or propagates, also when no listener exists; on
\* normal return main()'s result is the loop's return code.
C9_StopBeforeLeaving ==
  /\ mainPc \in {"returned", "raised"} =>
       /\ stopCalled
       /\ listenerState \in {"none", "stopped"}
  /\ mainPc = "returned" => (exitKind = "return" /\ result = rc /\ rc \in ReturnCodes)
  /\ mainPc = "raised" => (exitKind = "raise" /\ result = NoResult)

C9_Witness ==
  /\ mainPc = "raised"
  /\ stopCalled
  /\ listenerState = "none"

\* C10: the overlay starts Hidden, each toggle_visibility flips _is_visible (so
\* two calls restore it), _is_visible always equals the widget's shown state,
\* and only toggle_visibility changes _is_visible.
C10_VisibilityStateMachine ==
  /\ [](is_visible = widgetShown /\ is_visible = (nToggles % 2 = 1))
  /\ [][nToggles' # nToggles => is_visible' = ~is_visible]_vars
  /\ [][is_visible' # is_visible => nToggles' = nToggles + 1]_vars

C10_Witness ==
  /\ nToggles = 2
  /\ ~is_visible
  /\ ~widgetShown

====
